---------------------------- MODULE Spec2Model ----------------------------
(***************************************************************************)
(* A model of the Traversal repository: the graph package (graph.py), the  *)
(* Hopcroft-Tarjan articulation-point finder (HopcroftTarjan.py) and the   *)
(* backtracking Euler-path search (traverse.py).                           *)
(*                                                                         *)
(* Python objects are modelled with their identity: a Node is the record   *)
(* [name, inst] (inst tells apart distinct Node instances that carry the   *)
(* same name), an Arc is the record [start, finish, id] (id tells apart    *)
(* parallel arcs and is the order of their addresses, which Arc.__lt__     *)
(* falls back to).  None is NoNode.  An exception is recorded in the       *)
(* result of the operation that raised it.                                 *)
(***************************************************************************)
EXTENDS Integers, Sequences, FiniteSets, TLC

VARIABLES
    nodes,      \* Graph._nodes : name -> Node, NoNode where the key is absent
    arcs,       \* Graph._arcs  : set of Arc
    arcsFrom,   \* Node._arcsFrom of every Node object
    arcsTo,     \* Node._arcsTo of every Node object
    last,       \* the last Graph operation called and how it ended
    pc,         \* where the driver of an algorithm is
    file,       \* the graph file the driver loaded last
    visited,    \* Node.visited of every Node object (HopcroftTarjan.py)
    parent,     \* Node.parent
    depth,      \* Node.depth, -1 while the attribute is not set
    low,        \* Node.low, -1 while the attribute is not set
    cutpoints,  \* the list cutpoints of findArticulationPoints
    dfs,        \* the frames of applyHopcroftTarjan, the innermost call last
    err,        \* the exception that ended the driver, "none" while it runs
    lists,      \* the list objects of traverse.py: lists[1] is available, the others are copies
    path,       \* the list path that every call of traverseAll for one starting arc shares
    stack,      \* the frames of traverseAll, the innermost call last
    startIdx,   \* how many starting arcs the for loop of traverse has taken
    reported,   \* the paths printed at line 75, each with the starting arc of its search
    noPath      \* "No such path exists" was printed for the file

graphVars == <<nodes, arcs, arcsFrom, arcsTo>>
htVars == <<visited, parent, depth, low, cutpoints, dfs>>
eulerVars == <<lists, path, stack, startIdx, reported, noPath>>
vars == <<nodes, arcs, arcsFrom, arcsTo, last, pc, file, visited, parent, depth, low,
          cutpoints, dfs, err, lists, path, stack, startIdx, reported, noPath>>

---------------------------------------------------------------------------
(* Bounds of the model *)

\* Node instances per name that a client of the graph package holds
MaxInst == 2
\* parallel Arc objects per (start, finish) pair in the graph package model
MaxPar == 2
\* Arc objects referenced by the graph or by a node's sets at one time
MaxArcs == 2
\* nodes of the graph files given to the articulation-point finder
MaxHTNodes == 4
\* lines of the graph files given to the Euler search
MaxEdges == 4
\* lines "a -> b" among them
MaxDirected == 1

---------------------------------------------------------------------------
(* Names, nodes and arcs *)

\* node names, in the order of Python's string comparison
NameOrder == <<"A", "B", "C", "D", "E">>

Names == {NameOrder[i] : i \in 1..Len(NameOrder)}

Rank(name) == CHOOSE i \in 1..Len(NameOrder) : NameOrder[i] = name

\* names used by the clients of the graph package model
GraphNames == {"A", "B"}

NoNode == [name |-> "", inst |-> 0]

Node(name, inst) == [name |-> name, inst |-> inst]

Arc(start, finish, id) == [start |-> start, finish |-> finish, id |-> id]

\* the Node objects that Graph.load makes for a file
FileNodes == {Node(n, 1) : n \in Names}

GraphNodes == {Node(n, i) : n \in GraphNames, i \in 1..MaxInst}

GraphArcs == {Arc(s, f, k) : s \in GraphNodes, f \in GraphNodes, k \in 1..MaxPar}

\* Node.__lt__ raises KeyError("Duplicate names in a graph")
NodeLtRaises(n, m) == n # m /\ n.name = m.name

\* Node.__lt__ where it returns
NodeLt(n, m) == n # m /\ Rank(n.name) < Rank(m.name)

\* Arc.__lt__ raises (through Node.__lt__ on the starts, then on the finishes)
ArcLtRaises(a, b) ==
    /\ a # b
    /\ \/ NodeLtRaises(a.start, b.start)
       \/ a.start = b.start /\ NodeLtRaises(a.finish, b.finish)

\* Arc.__lt__ where it returns
ArcLt(a, b) ==
    /\ a # b
    /\ \/ NodeLt(a.start, b.start)
       \/ a.start = b.start /\ NodeLt(a.finish, b.finish)
       \/ a.start = b.start /\ a.finish = b.finish /\ a.id < b.id

\* sorted(S) raises: a sort has to compare two neighbours of the final order,
\* and every pair that raises is made of neighbours of its own class
SortRaises(S) == \E a \in S, b \in S : ArcLtRaises(a, b)

\* sorted(S) for a set of arcs on which no comparison raises: the arc at
\* index i has i - 1 arcs of the set before it
SortArcs(S) ==
    [i \in 1..Cardinality(S) |->
        CHOOSE x \in S : Cardinality({y \in S : ArcLt(y, x)}) = i - 1]

\* sorted(S) for a set of nodes with distinct names: the node at index i has
\* i - 1 nodes of the set before it
SortNodes(S) ==
    [i \in 1..Cardinality(S) |->
        CHOOSE x \in S : Cardinality({y \in S : NodeLt(y, x)}) = i - 1]

---------------------------------------------------------------------------
(* class Graph, as functions of the graph g = [nodes, arcs, arcsFrom, arcsTo] *)

\* Graph(), beside the Node objects ns (none of them in an arc yet)
EmptyGraph(names, ns) ==
    [nodes    |-> [n \in names |-> NoNode],
     arcs     |-> {},
     arcsFrom |-> [n \in ns |-> {}],
     arcsTo   |-> [n \in ns |-> {}]]

TheGraph == [nodes |-> nodes, arcs |-> arcs, arcsFrom |-> arcsFrom, arcsTo |-> arcsTo]

\* Graph.clear: the Node objects keep their own sets
clear(g) == [g EXCEPT !.nodes = [n \in DOMAIN g.nodes |-> NoNode], !.arcs = {}]

getNode(g, name) == g.nodes[name]

\* the nodes the node map holds
Registered(g) == {g.nodes[n] : n \in DOMAIN g.nodes} \ {NoNode}

\* every arc some part of the structure refers to
ReferencedArcs(g) ==
    g.arcs \cup UNION {g.arcsFrom[n] : n \in DOMAIN g.arcsFrom}
           \cup UNION {g.arcsTo[n] : n \in DOMAIN g.arcsTo}

\* every node some part of the structure refers to
ReferencedNodes(g) ==
    Registered(g) \cup {a.start : a \in ReferencedArcs(g)} \cup {a.finish : a \in ReferencedArcs(g)}

\* instances of a name that Node(name) can be: objects nothing refers to yet
FreshInsts(g, name) ==
    {i \in 1..MaxInst : Node(name, i) \notin ReferencedNodes(g)}

\* Graph.createNode: a new Node object
createNode(g, name) ==
    Node(name, CHOOSE i \in FreshInsts(g, name) : \A j \in FreshInsts(g, name) : i <= j)

\* the argument of addNode and removeNode: a string or a Node object
ArgStr(name) == [isStr |-> TRUE, name |-> name, node |-> NoNode]

ArgNode(n) == [isStr |-> FALSE, name |-> n.name, node |-> n]

\* whether addNode(arg) has to create a Node object
NeedsFresh(g, arg) == arg.isStr /\ getNode(g, arg.name) = NoNode

\* Graph.addNode: the graph after the call and the node returned
addNode(g, arg) ==
    LET found == getNode(g, arg.name)
        node  == IF arg.isStr
                 THEN (IF found = NoNode THEN createNode(g, arg.name) ELSE found)
                 ELSE arg.node
    IN  [g |-> [g EXCEPT !.nodes[node.name] = node], node |-> node]

\* Graph.addArc from line 96 on, for the Arc object arc
registerArc(g, arc) ==
    [g EXCEPT !.arcs = @ \cup {arc},
              !.arcsFrom[arc.start] = @ \cup {arc},
              !.arcsTo[arc.finish] = @ \cup {arc}]

\* Graph.removeArc: the graph when the call ends and the exception it raised
removeArc(g, arc) ==
    IF arc \notin g.arcs THEN [g |-> g, err |-> "KeyError"]
    ELSE LET g1 == [g EXCEPT !.arcs = @ \ {arc}] IN
         IF arc \notin g1.arcsFrom[arc.start] THEN [g |-> g1, err |-> "KeyError"]
         ELSE LET g2 == [g1 EXCEPT !.arcsFrom[arc.start] = @ \ {arc}] IN
              IF arc \notin g2.arcsTo[arc.finish] THEN [g |-> g2, err |-> "KeyError"]
              ELSE [g |-> [g2 EXCEPT !.arcsTo[arc.finish] = @ \ {arc}], err |-> "none"]

RECURSIVE removeArcs(_, _)
\* the loops of Graph.removeNode: removeArc on each arc of a list, up to the first raise
removeArcs(g, list) ==
    IF list = <<>> THEN [g |-> g, err |-> "none"]
    ELSE LET r == removeArc(g, Head(list))
         IN  IF r.err # "none" THEN r ELSE removeArcs(r.g, Tail(list))

\* Node.getArcsFrom
getArcsFrom(g, node) == SortArcs(g.arcsFrom[node])

\* Node.getArcsTo
getArcsTo(g, node) == SortArcs(g.arcsTo[node])

\* Graph.removeNode from line 74 on, for the Node object node
removeNodeObject(g, node) ==
    IF SortRaises(g.arcsFrom[node]) THEN [g |-> g, err |-> "KeyError"]
    ELSE LET r1 == removeArcs(g, getArcsFrom(g, node)) IN
         IF r1.err # "none" THEN r1
         ELSE IF SortRaises(r1.g.arcsTo[node]) THEN [g |-> r1.g, err |-> "KeyError"]
         ELSE LET r2 == removeArcs(r1.g, getArcsTo(r1.g, node)) IN
              IF r2.err # "none" THEN r2
              ELSE IF r2.g.nodes[node.name] = NoNode THEN [g |-> r2.g, err |-> "KeyError"]
              ELSE [g |-> [r2.g EXCEPT !.nodes[node.name] = NoNode], err |-> "none"]

\* Graph.removeNode
removeNode(g, arg) ==
    IF arg.isStr
    THEN (IF getNode(g, arg.name) = NoNode
          THEN [g |-> g, err |-> "ValueError"]
          ELSE removeNodeObject(g, getNode(g, arg.name)))
    ELSE removeNodeObject(g, arg.node)

\* Graph.getNodes
getNodes(g) == SortNodes(Registered(g))

\* Graph.getArcs
getArcs(g) == SortArcs(g.arcs)

SetGraph(g) ==
    /\ nodes' = g.nodes
    /\ arcs' = g.arcs
    /\ arcsFrom' = g.arcsFrom
    /\ arcsTo' = g.arcsTo

\* Node.getNeighbors
getNeighbors(g, node) == SortNodes({a.finish : a \in g.arcsFrom[node]})

---------------------------------------------------------------------------
(* Graph files and Graph.load *)

\* the unordered pair {a, b} of names, as the pair in name order
Pair(a, b) == IF Rank(a) <= Rank(b) THEN <<a, b>> ELSE <<b, a>>

UndPairs(S) == {Pair(a, b) : a \in S, b \in S}

\* a file: the names its lines declare, how many lines "a - b" it has for each
\* unordered pair and how many lines "a -> b" for each ordered pair
File(names, und, dir) == [names |-> names, und |-> und, dir |-> dir]

NoFile == File({}, [p \in UndPairs(Names) |-> 0], [p \in Names \X Names |-> 0])

\* the arcs from a to b that load creates: one per line "a -> b", one per line
\* "a - b" or "b - a", and two per line "a - a"
ArcCount(f, a, b) ==
    f.dir[<<a, b>>] + (IF a = b THEN 2 * f.und[<<a, a>>] ELSE f.und[Pair(a, b)])

\* Graph.clear followed by Graph.load: every name gets one new Node object,
\* parallel arcs are numbered in the order of their addresses
loadFile(f) ==
    LET as == UNION {{Arc(Node(p[1], 1), Node(p[2], 1), k) : k \in 1..ArcCount(f, p[1], p[2])} :
                        p \in f.names \X f.names}
    IN  [nodes    |-> [n \in Names |-> IF n \in f.names THEN Node(n, 1) ELSE NoNode],
         arcs     |-> as,
         arcsFrom |-> [n \in FileNodes |-> {x \in as : x.start = n}],
         arcsTo   |-> [n \in FileNodes |-> {x \in as : x.finish = n}]]

---------------------------------------------------------------------------
(* HopcroftTarjan.py *)

\* the Node objects before findArticulationPoints has touched them
Untouched ==
    [visited |-> [n \in FileNodes |-> FALSE],
     parent  |-> [n \in FileNodes |-> NoNode],
     depth   |-> [n \in FileNodes |-> -1],
     low     |-> [n \in FileNodes |-> -1]]

InitHT ==
    /\ visited = Untouched.visited
    /\ parent = Untouched.parent
    /\ depth = Untouched.depth
    /\ low = Untouched.low
    /\ cutpoints = <<>>
    /\ dfs = <<>>

Min(a, b) == IF a < b THEN a ELSE b

\* line 50, node.low >= start.depth, with the strict comparison
LowReachesStrict(nodeLow, startDepth) == nodeLow > startDepth

\* line 50: node.low >= start.depth
LowReaches(nodeLow, startDepth) == nodeLow >= startDepth

\* the names of the files given to the finder
HTNames == {NameOrder[i] : i \in 1..MaxHTNodes}

\* the files given to the finder: node lines and lines "a - b" between the
\* names they declare, at most one of them a line "a - a"
HTFiles ==
    {File(x[1], [p \in UndPairs(Names) |-> IF p \in x[2] THEN 1 ELSE 0], NoFile.dir) :
        x \in {y \in (SUBSET HTNames) \X (SUBSET UndPairs(HTNames)) :
                  /\ y[2] \subseteq UndPairs(y[1])
                  /\ Cardinality({p \in y[2] : p[1] = p[2]}) <= 1}}

\* each file with the graph that Graph.load makes of it
HTLoaded == {[file |-> f, g |-> loadFile(f)] : f \in HTFiles}

\* a frame of applyHopcroftTarjan(start, depth, cutpoints) at line 44: the
\* list neighbors, the position i of the for loop in it, children, isCutPoint
Frame(g, start) ==
    [start |-> start, neighbors |-> getNeighbors(g, start), i |-> 1,
     children |-> 0, isCutPoint |-> FALSE]

\* lines 37-39 of the call applyHopcroftTarjan(start, d, cutpoints)
Enter(start, d) ==
    /\ visited' = [visited EXCEPT ![start] = TRUE]
    /\ depth' = [depth EXCEPT ![start] = d]
    /\ low' = [low EXCEPT ![start] = d]

Top == dfs[Len(dfs)]

\* HopcroftTarjan line 20, g.load(filename), into the graph cleared at line 19
HTLoad ==
    /\ pc = "prompt"
    /\ \E x \in HTLoaded :
        /\ SetGraph(x.g)
        /\ file' = x.file
    /\ pc' = "loaded"
    /\ visited' = Untouched.visited
    /\ parent' = Untouched.parent
    /\ depth' = Untouched.depth
    /\ low' = Untouched.low
    /\ cutpoints' = <<>>
    /\ dfs' = <<>>
    /\ UNCHANGED <<last, err>>
    /\ UNCHANGED eulerVars

\* findArticulationPoints up to the call at line 32, and lines 37-43 of that call
HTFind ==
    /\ pc = "loaded"
    /\ LET ns == getNodes(TheGraph) IN
       IF ns = <<>>
       THEN /\ pc' = "error"
            /\ err' = "IndexError"
            /\ UNCHANGED htVars
       ELSE /\ pc' = "dfs"
            /\ err' = err
            /\ visited' = [n \in FileNodes |-> IF n = ns[1] THEN TRUE
                                               ELSE IF n \in Registered(TheGraph) THEN FALSE
                                               ELSE visited[n]]
            /\ parent' = [n \in FileNodes |-> IF n \in Registered(TheGraph) THEN NoNode ELSE parent[n]]
            /\ depth' = [depth EXCEPT ![ns[1]] = 0]
            /\ low' = [low EXCEPT ![ns[1]] = 0]
            /\ cutpoints' = <<>>
            /\ dfs' = <<Frame(TheGraph, ns[1])>>
    /\ UNCHANGED <<graphVars, last, file>>
    /\ UNCHANGED eulerVars

\* lines 45-48: the neighbour is not visited; the call at line 48 runs to line 44
HTDescend ==
    /\ pc = "dfs"
    /\ Top.i <= Len(Top.neighbors)
    /\ LET node == Top.neighbors[Top.i] IN
       /\ ~visited[node]
       /\ parent' = [parent EXCEPT ![node] = Top.start]
       /\ Enter(node, depth[Top.start] + 1)
       /\ dfs' = Append(dfs, Frame(TheGraph, node))
    /\ UNCHANGED <<graphVars, last, file, pc, cutpoints, err>>
    /\ UNCHANGED eulerVars

\* lines 53-54: the neighbour is visited
HTVisited ==
    /\ pc = "dfs"
    /\ Top.i <= Len(Top.neighbors)
    /\ LET node == Top.neighbors[Top.i] IN
       /\ visited[node]
       /\ low' = IF node # parent[Top.start]
                 THEN [low EXCEPT ![Top.start] = Min(low[Top.start], depth[node])]
                 ELSE low
       /\ dfs' = [dfs EXCEPT ![Len(dfs)].i = @ + 1]
    /\ UNCHANGED <<graphVars, last, file, pc, visited, parent, depth, cutpoints, err>>
    /\ UNCHANGED eulerVars

\* lines 55-58 of the innermost call, then lines 49-52 of its caller; when the
\* first call returns, findArticulationPoints returns cutpoints
HTReturn ==
    /\ pc = "dfs"
    /\ Top.i > Len(Top.neighbors)
    /\ LET node  == Top.start
           isCut == IF parent[node] = NoNode THEN Top.children > 1 ELSE Top.isCutPoint
       IN  /\ cutpoints' = IF isCut THEN Append(cutpoints, node) ELSE cutpoints
           /\ IF Len(dfs) = 1
              THEN /\ dfs' = <<>>
                   /\ pc' = "done"
                   /\ low' = low
              ELSE LET caller == dfs[Len(dfs) - 1] IN
                   /\ dfs' = [SubSeq(dfs, 1, Len(dfs) - 1) EXCEPT ![Len(dfs) - 1] =
                                 [caller EXCEPT !.children = @ + 1,
                                                !.isCutPoint = @ \/ LowReaches(low[node], depth[caller.start]),
                                                !.i = @ + 1]]
                   /\ low' = [low EXCEPT ![caller.start] = Min(low[caller.start], low[node])]
                   /\ pc' = pc
    /\ UNCHANGED <<graphVars, last, file, visited, parent, depth, err>>
    /\ UNCHANGED eulerVars

\* lines 21-23, then lines 13-19 of the next pass of the loop: the result is
\* printed, a file name is read and g.clear() drops the nodes and the arcs;
\* nothing refers to the old Node objects any more
HTAgain ==
    /\ pc = "done"
    /\ pc' = "prompt"
    /\ file' = NoFile
    /\ SetGraph(EmptyGraph(Names, FileNodes))
    /\ visited' = Untouched.visited
    /\ parent' = Untouched.parent
    /\ depth' = Untouched.depth
    /\ low' = Untouched.low
    /\ cutpoints' = <<>>
    /\ dfs' = <<>>
    /\ UNCHANGED <<last, err>>
    /\ UNCHANGED eulerVars

NextHT ==
    \/ HTLoad
    \/ HTAgain
    \/ HTFind
    \/ HTDescend
    \/ HTVisited
    \/ HTReturn

---------------------------------------------------------------------------
(* traverse.py *)

\* the elements of a list
Range(seq) == {seq[i] : i \in 1..Len(seq)}

\* the list without its element at index j
RemoveAt(list, j) == SubSeq(list, 1, j - 1) \o SubSeq(list, j + 1, Len(list))

\* list.remove(x): the first element equal to x goes, ValueError when there is none
listRemove(list, x) ==
    LET at == {j \in 1..Len(list) : list[j] = x} IN
    IF at = {}
    THEN [list |-> list, err |-> "ValueError"]
    ELSE [list |-> RemoveAt(list, CHOOSE j \in at : \A k \in at : j <= k), err |-> "none"]

\* a removeReverseArc that leaves the list alone
removeReverseArcNone(unvisited, arc) == unvisited

\* removeReverseArc: the first arc of the list that runs from the arc's finish
\* to the arc's start is removed from the list
removeReverseArc(unvisited, arc) ==
    LET at == {j \in 1..Len(unvisited) :
                  unvisited[j].start = arc.finish /\ unvisited[j].finish = arc.start} IN
    IF at = {} THEN unvisited
    ELSE RemoveAt(unvisited, CHOOSE j \in at : \A k \in at : j <= k)

\* a removeFullArc that removes nothing
removeFullArcNone(arc, unvisited) == [list |-> unvisited, err |-> "none"]

\* removeFullArc: removeReverseArc, then unvisited.remove(arc)
removeFullArc(arc, unvisited) == listRemove(removeReverseArc(unvisited, arc), arc)

\* checkIfEuler: False when three or more nodes have an odd number of outgoing arcs
checkIfEuler(g) ==
    LET odd == {n \in Registered(g) : Len(getArcsFrom(g, n)) % 2 = 1} IN
    ~(Cardinality(odd) >= 3)

\* a list bound to the same object as list r
ListAlias(heap, r) == [heap |-> heap, ref |-> r]

\* list.copy(): a new list object with the elements of list r
ListCopy(heap, r) == [heap |-> Append(heap, heap[r]), ref |-> Len(heap) + 1]

\* the nodes the Euler search is given
EulerNames == {"A", "B", "C"}

\* the kinds of line "a - b" and "a -> b" over these nodes
UndKinds == UndPairs(EulerNames)

DirKinds == EulerNames \X EulerNames

\* the multisets over the kinds K with at most n elements, as functions K -> Nat
RECURSIVE Multisets(_, _)

Multisets(K, n) ==
    IF K = {} THEN {<<>>}
    ELSE LET k == CHOOSE x \in K : TRUE IN
         UNION {{(k :> c) @@ m : m \in Multisets(K \ {k}, n - c)} : c \in 0..n}

RECURSIVE Size(_)

Size(m) ==
    IF DOMAIN m = {} THEN 0
    ELSE LET k == CHOOSE x \in DOMAIN m : TRUE IN
         m[k] + Size([x \in DOMAIN m \ {k} |-> m[x]])

\* the graph file with the lines u (undirected) and d (directed); its nodes
\* are the endpoints of its lines
LinesFile(u, d) ==
    File({p[1] : p \in {q \in DOMAIN u : u[q] > 0}} \cup {p[2] : p \in {q \in DOMAIN u : u[q] > 0}}
            \cup {p[1] : p \in {q \in DOMAIN d : d[q] > 0}}
            \cup {p[2] : p \in {q \in DOMAIN d : d[q] > 0}},
         [p \in UndPairs(Names) |-> IF p \in DOMAIN u THEN u[p] ELSE 0],
         [p \in Names \X Names |-> IF p \in DOMAIN d THEN d[p] ELSE 0])

\* the graph files given to the Euler search: at most MaxEdges lines, at most
\* MaxDirected of them directed
EulerFiles ==
    UNION {{LinesFile(u, d) : u \in Multisets(UndKinds, MaxEdges - Size(d))} :
              d \in Multisets(DirKinds, MaxDirected)}

EulerLoaded == {[file |-> f, g |-> loadFile(f)] : f \in EulerFiles}

InitEuler ==
    /\ lists = <<>>
    /\ path = <<>>
    /\ stack = <<>>
    /\ startIdx = 0
    /\ reported = <<>>
    /\ noPath = FALSE

\* the innermost call of traverseAll
TopCall == stack[Len(stack)]

\* the frame of a call of traverseAll
Call(start, unvisited, neighbors, at) ==
    [start |-> start, unvisited |-> unvisited, neighbors |-> neighbors, i |-> 1, at |-> at]

\* traverseAll(graph, unvisited, start, path) from its entry to the for loop
\* at line 82 or to its return, with the list objects heap, unvisited being
\* heap[ref], for the search begun at the arc from
traverseAll(g, heap, ref, start, p, from) ==
    LET r    == removeFullArc(start, heap[ref])
        h    == [heap EXCEPT ![ref] = r.list]
        back == [err |-> "none", lists |-> h, path |-> p, reports |-> <<>>,
                 frame |-> Call(start, ref, <<>>, "return")]
    IN  IF r.err # "none" THEN [back EXCEPT !.err = r.err]
        ELSE IF r.list = <<>>
        THEN IF p = <<>> THEN [back EXCEPT !.err = "IndexError"]
             ELSE IF p[Len(p)].finish = start.start
             THEN [back EXCEPT !.path = Append(p, start),
                               !.reports = <<[from |-> from, path |-> Append(p, start)]>>]
             ELSE back
        ELSE IF p = <<>> \/ p[Len(p)].finish = start.start
        THEN [back EXCEPT !.path = Append(p, start),
                          !.frame = Call(start, ref, getArcsFrom(g, start.finish), "for")]
        ELSE back

\* the effect of a call of traverseAll on the driver's state
Entered(t, frames) ==
    /\ lists' = t.lists
    /\ path' = t.path
    /\ reported' = reported \o t.reports
    /\ err' = t.err
    /\ IF t.err # "none"
       THEN pc' = "error" /\ stack' = frames
       ELSE pc' = "search" /\ stack' = Append(frames, t.frame)

\* traverse, lines 15-21: a file name is entered, the graph is cleared and loaded
ELoad ==
    /\ pc = "prompt"
    /\ \E x \in EulerLoaded :
        /\ SetGraph(x.g)
        /\ file' = x.file
    /\ pc' = "loaded"
    /\ UNCHANGED <<last, err>>
    /\ UNCHANGED htVars
    /\ UNCHANGED eulerVars

\* traverse, lines 22-25: the list available, and the message of the failed check
ECheck ==
    /\ pc = "loaded"
    /\ lists' = <<getArcs(TheGraph)>>
    /\ noPath' = ~checkIfEuler(TheGraph)
    /\ pc' = "loop"
    /\ UNCHANGED <<graphVars, last, file, err, path, stack, startIdx, reported>>
    /\ UNCHANGED htVars

\* traverse, lines 26-28: the next starting arc, a copy of available, a new
\* path, and the call of traverseAll up to its loop or return
EStart ==
    /\ pc = "loop"
    /\ startIdx < Len(lists[1])
    /\ \E s \in {lists[1][startIdx + 1]} : \E c \in {ListCopy(lists, 1)} :
        \E t \in {traverseAll(TheGraph, c.heap, c.ref, s, <<>>, s)} : Entered(t, <<>>)
    /\ startIdx' = startIdx + 1
    /\ UNCHANGED <<graphVars, last, file, noPath>>
    /\ UNCHANGED htVars

\* traverseAll, lines 82-86: the neighbor is in unvisited, a copy is made and
\* the recursive call runs up to its loop or return
EBranch ==
    /\ pc = "search"
    /\ TopCall.at = "for"
    /\ TopCall.i <= Len(TopCall.neighbors)
    /\ TopCall.neighbors[TopCall.i] \in Range(lists[TopCall.unvisited])
    /\ \E c \in {ListCopy(lists, TopCall.unvisited)} :
        \E t \in {traverseAll(TheGraph, c.heap, c.ref, TopCall.neighbors[TopCall.i], path,
                              stack[1].start)} : Entered(t, stack)
    /\ UNCHANGED <<graphVars, last, file, noPath, startIdx>>
    /\ UNCHANGED htVars

\* traverseAll, lines 82-83: the neighbor is not in unvisited
ESkip ==
    /\ pc = "search"
    /\ TopCall.at = "for"
    /\ TopCall.i <= Len(TopCall.neighbors)
    /\ TopCall.neighbors[TopCall.i] \notin Range(lists[TopCall.unvisited])
    /\ stack' = [stack EXCEPT ![Len(stack)].i = @ + 1]
    /\ UNCHANGED <<graphVars, last, file, pc, err, lists, path, startIdx, reported, noPath>>
    /\ UNCHANGED htVars

\* traverseAll returns (lines 76, 78, 88, or the end of the loop at line 82):
\* the caller goes on with its next neighbor, the callee's list is garbage;
\* back in traverse the path object is garbage too
EReturn ==
    /\ pc = "search"
    /\ TopCall.at = "return" \/ TopCall.i > Len(TopCall.neighbors)
    /\ LET n    == Len(stack) - 1
           rest == [k \in 1..n |-> IF k = n THEN [stack[k] EXCEPT !.i = @ + 1] ELSE stack[k]]
           live == {1} \cup {rest[k].unvisited : k \in 1..n}
       IN  /\ stack' = rest
           /\ lists' = SubSeq(lists, 1, CHOOSE r \in live : \A q \in live : q <= r)
           /\ pc' = IF n = 0 THEN "loop" ELSE "search"
           /\ path' = IF n = 0 THEN <<>> ELSE path
    /\ UNCHANGED <<graphVars, last, file, err, startIdx, reported, noPath>>
    /\ UNCHANGED htVars

\* traverse, line 26: every starting arc has been taken
EDone ==
    /\ pc = "loop"
    /\ startIdx >= Len(lists[1])
    /\ pc' = "done"
    /\ UNCHANGED <<graphVars, last, file, err>>
    /\ UNCHANGED htVars
    /\ UNCHANGED eulerVars

\* traverse, line 14: the next pass of the while loop, with nothing kept of the last
EAgain ==
    /\ pc = "done"
    /\ pc' = "prompt"
    /\ file' = NoFile
    /\ SetGraph(EmptyGraph(Names, FileNodes))
    /\ lists' = <<>>
    /\ path' = <<>>
    /\ stack' = <<>>
    /\ startIdx' = 0
    /\ reported' = <<>>
    /\ noPath' = FALSE
    /\ UNCHANGED <<last, err>>
    /\ UNCHANGED htVars

NextEuler ==
    \/ ELoad
    \/ ECheck
    \/ EStart
    \/ EBranch
    \/ ESkip
    \/ EReturn
    \/ EDone
    \/ EAgain

---------------------------------------------------------------------------
(* The clients' calls on a Graph object *)

Called(op, node, raised) ==
    /\ last' = [op |-> op, node |-> node, err |-> raised]
    /\ UNCHANGED <<pc, file, err>>
    /\ UNCHANGED htVars
    /\ UNCHANGED eulerVars

\* the node that removeNode(arg) is about
Target(g, arg) == IF arg.isStr THEN getNode(g, arg.name) ELSE arg.node

GraphArgs == {ArgStr(n) : n \in GraphNames} \cup {ArgNode(n) : n \in GraphNodes}

InitGraph ==
    /\ nodes = EmptyGraph(GraphNames, GraphNodes).nodes
    /\ arcs = EmptyGraph(GraphNames, GraphNodes).arcs
    /\ arcsFrom = EmptyGraph(GraphNames, GraphNodes).arcsFrom
    /\ arcsTo = EmptyGraph(GraphNames, GraphNodes).arcsTo
    /\ last = [op |-> "Graph", node |-> NoNode, err |-> "none"]
    /\ pc = "client"
    /\ file = NoFile
    /\ err = "none"
    /\ InitHT
    /\ InitEuler

Clear ==
    /\ SetGraph(clear(TheGraph))
    /\ Called("clear", NoNode, "none")

AddNode ==
    \E arg \in GraphArgs :
        /\ NeedsFresh(TheGraph, arg) => FreshInsts(TheGraph, arg.name) # {}
        /\ SetGraph(addNode(TheGraph, arg).g)
        /\ Called("addNode", NoNode, "none")

RemoveNode ==
    \E arg \in GraphArgs :
        LET r == removeNode(TheGraph, arg) IN
        /\ SetGraph(r.g)
        /\ Called("removeNode", Target(TheGraph, arg), r.err)

\* addArc(arg1, arg2): the new Arc object's address falls anywhere among
\* those of its parallel arcs
AddArcPair ==
    \E arg1 \in GraphArgs, arg2 \in GraphArgs, id \in 1..MaxPar :
        /\ Cardinality(ReferencedArcs(TheGraph)) < MaxArcs
        /\ NeedsFresh(TheGraph, arg1) => FreshInsts(TheGraph, arg1.name) # {}
        /\ LET r1 == addNode(TheGraph, arg1) IN
           /\ NeedsFresh(r1.g, arg2) => FreshInsts(r1.g, arg2.name) # {}
           /\ LET r2  == addNode(r1.g, arg2)
                  arc == Arc(r1.node, r2.node, id)
              IN  /\ arc \notin ReferencedArcs(TheGraph)
                  /\ SetGraph(registerArc(r2.g, arc))
        /\ Called("addArc", NoNode, "none")

\* addArc(arc) for an Arc object the client made or kept
AddArcObject ==
    \E arc \in GraphArcs :
        /\ arc \in ReferencedArcs(TheGraph) \/ Cardinality(ReferencedArcs(TheGraph)) < MaxArcs
        /\ SetGraph(registerArc(TheGraph, arc))
        /\ Called("addArc", NoNode, "none")

RemoveArc ==
    \E arc \in GraphArcs :
        LET r == removeArc(TheGraph, arc) IN
        /\ SetGraph(r.g)
        /\ Called("removeArc", NoNode, r.err)

InitAlg ==
    /\ nodes = EmptyGraph(Names, FileNodes).nodes
    /\ arcs = EmptyGraph(Names, FileNodes).arcs
    /\ arcsFrom = EmptyGraph(Names, FileNodes).arcsFrom
    /\ arcsTo = EmptyGraph(Names, FileNodes).arcsTo
    /\ last = [op |-> "Graph", node |-> NoNode, err |-> "none"]
    /\ pc = "prompt"
    /\ file = NoFile
    /\ err = "none"
    /\ InitHT
    /\ InitEuler

SpecHT == InitAlg /\ [][NextHT]_vars

SpecEuler == InitAlg /\ [][NextEuler]_vars

\* the steps of the program once a file is loaded: the interpreter runs them
\* one after the other, it only waits at the prompt
Running ==
    \/ ECheck
    \/ EStart
    \/ EBranch
    \/ ESkip
    \/ EReturn
    \/ EDone

SpecEulerFair == SpecEuler /\ WF_vars(Running)

NextGraph ==
    \/ Clear
    \/ AddNode
    \/ RemoveNode
    \/ AddArcPair
    \/ AddArcObject
    \/ RemoveArc

SpecGraph == InitGraph /\ [][NextGraph]_vars

---------------------------------------------------------------------------
(* Claims about the graph package *)

\* the arcs of the graph at node n
Incident(g, n) == {a \in g.arcs : a.start = n \/ a.finish = n}

\* C1: an arc is in the graph's arc set if and only if it is in the outgoing
\* set of exactly one node of the node map and in the incoming set of exactly
\* one node of the node map, after any sequence of Graph operations.
C1_ArcsConsistent ==
    \A a \in ReferencedArcs(TheGraph) :
        a \in arcs <=>
            /\ Cardinality({n \in Registered(TheGraph) : a \in arcsFrom[n]}) = 1
            /\ Cardinality({n \in Registered(TheGraph) : a \in arcsTo[n]}) = 1

\* C2: removeNode(n) on a node n of the node map succeeds, takes n out of the
\* node map and removes exactly the arcs whose start or finish is n; every
\* other node and every other arc is left as it was.
C2_RemoveNodeExact ==
    [][(last'.op = "removeNode" /\ last'.node \in Registered(TheGraph)) =>
          LET n == last'.node
              gone == Incident(TheGraph, n)
          IN  /\ last'.err = "none"
              /\ nodes' = [nodes EXCEPT ![n.name] = NoNode]
              /\ arcs' = arcs \ gone
              /\ Cardinality(arcs') = Cardinality(arcs) - Cardinality(gone)
              /\ \A m \in GraphNodes \ {n} :
                    /\ arcsFrom'[m] = arcsFrom[m] \ gone
                    /\ arcsTo'[m] = arcsTo[m] \ gone]_vars

\* C3: a removeArc on an arc that is not in the arc set, and a removeNode on
\* a name that is not present or on a Node object that is not in the node
\* map, fail before any mutation: the node map, the arc set and every node's
\* sets are as before the call.
C3_FailureBeforeMutation ==
    [][(/\ last'.err # "none"
        /\ \/ last'.op = "removeArc"
           \/ last'.op = "removeNode" /\ last'.node \notin Registered(TheGraph))
       => UNCHANGED graphVars]_vars

\* C4: no two distinct Node instances with the same name are both referenced
\* by the graph, as values of the node map or as endpoints of arcs of the
\* arc set.
C4_UniqueNames ==
    LET used == Registered(TheGraph) \cup {a.start : a \in arcs} \cup {a.finish : a \in arcs}
    IN  \A n \in used, m \in used : n.name = m.name => n = m

---------------------------------------------------------------------------
(* Claims about the articulation-point finder *)

RECURSIVE Reach(_, _, _)
\* the nodes of the set allowed that the arcs lead to from the set seen
Reach(g, allowed, seen) ==
    LET next == UNION {{a.finish : a \in g.arcsFrom[n]} : n \in seen} \cap allowed
    IN  IF next \subseteq seen THEN seen ELSE Reach(g, allowed, seen \cup next)

\* the nodes S are connected among themselves
ConnectedOn(g, S) == \A n \in S : Reach(g, S, {n}) = S

\* the nodes whose removal leaves the remaining nodes disconnected
CutVertices(g) == {v \in Registered(g) : ~ConnectedOn(g, Registered(g) \ {v})}

\* the file with the lines "a - b" for the pairs E
UndFile(S, E) == File(S, [p \in UndPairs(Names) |-> IF p \in E THEN 1 ELSE 0], NoFile.dir)

PathABCD == UndFile({"A", "B", "C", "D"}, {<<"A", "B">>, <<"B", "C">>, <<"C", "D">>})

CycleABC == UndFile({"A", "B", "C"}, {<<"A", "B">>, <<"B", "C">>, <<"A", "C">>})

\* C5: for a connected graph of reciprocal arc pairs (with at least one node)
\* findArticulationPoints returns exactly the cut vertices, each once: {B, C}
\* for the path A-B-C-D and nothing for the cycle A-B-C-A.
C5_CutVertices ==
    (pc = "done" /\ Registered(TheGraph) # {} /\ ConnectedOn(TheGraph, Registered(TheGraph))) =>
        /\ Range(cutpoints) = CutVertices(TheGraph)
        /\ Len(cutpoints) = Cardinality(Range(cutpoints))
        /\ file = PathABCD => Range(cutpoints) = {Node("B", 1), Node("C", 1)}
        /\ file = CycleABC => cutpoints = <<>>

\* the finder has returned two cut vertices of a connected graph of four nodes
C5_Witness ==
    /\ pc = "done"
    /\ Cardinality(Registered(TheGraph)) = 4
    /\ ConnectedOn(TheGraph, Registered(TheGraph))
    /\ Cardinality(Range(cutpoints)) = 2
    /\ Range(cutpoints) = CutVertices(TheGraph)

---------------------------------------------------------------------------
(* Claims about the Euler search *)

\* the list available of the driver, as line 22 made it
Available == getArcs(TheGraph)

\* the starting arcs whose search has returned to the driver
Returned ==
    {Available[k] : k \in 1..(IF pc \in {"search", "error"} THEN startIdx - 1 ELSE startIdx)}

\* the paths reported by the search started from the arc s
ReportsFrom(s) == {r.path : r \in {q \in Range(reported) : q.from = s}}

\* the number of arcs of the graph from a to b
Parallel(g, a, b) == Cardinality({x \in g.arcs : x.start = a /\ x.finish = b})

\* the number of arcs of the path from a to b
Uses(p, a, b) == Cardinality({i \in 1..Len(p) : p[i].start = a /\ p[i].finish = b})

Max(a, b) == IF a < b THEN b ELSE a

\* the path is chained, repeats no arc and uses every arc of the graph once,
\* a reciprocal pair counting as one arc used in one of its two directions
ValidTraversal(g, p) ==
    /\ \A i \in 1..(Len(p) - 1) : p[i + 1].start = p[i].finish
    /\ \A i \in 1..Len(p) : \A j \in 1..Len(p) : p[i] = p[j] => i = j
    /\ Range(p) \subseteq g.arcs
    /\ \A a \in Registered(g) : Uses(p, a, a) = (Parallel(g, a, a) + 1) \div 2
    /\ \A a \in Registered(g) : \A b \in Registered(g) \ {a} :
        /\ Uses(p, a, b) + Uses(p, b, a) = Max(Parallel(g, a, b), Parallel(g, b, a))
        /\ Uses(p, a, b) >= Parallel(g, a, b) - Parallel(g, b, a)

\* the graph is made of reciprocal arc pairs
Reciprocal(g) ==
    /\ \A a \in Registered(g) : Parallel(g, a, a) % 2 = 0
    /\ \A a \in Registered(g) : \A b \in Registered(g) : Parallel(g, a, b) = Parallel(g, b, a)

\* the undirected edges of a graph of reciprocal pairs, counted per pair of names
Edges(g) ==
    [p \in UndPairs(Names) |->
        IF g.nodes[p[1]] = NoNode \/ g.nodes[p[2]] = NoNode THEN 0
        ELSE IF p[1] = p[2] THEN Parallel(g, g.nodes[p[1]], g.nodes[p[1]]) \div 2
        ELSE Parallel(g, g.nodes[p[1]], g.nodes[p[2]])]

RECURSIVE Trail(_, _)
\* some chained sequence from the node named v uses every edge of E once
Trail(E, v) ==
    \/ \A p \in DOMAIN E : E[p] = 0
    \/ \E w \in Names : E[Pair(v, w)] > 0 /\ Trail([E EXCEPT ![Pair(v, w)] = @ - 1], w)

\* some chained sequence that begins with the arc s uses every edge once
TrailFrom(g, s) ==
    LET E == Edges(g)
        p == Pair(s.start.name, s.finish.name)
    IN  E[p] > 0 /\ Trail([E EXCEPT ![p] = @ - 1], s.finish.name)

\* C6: when three or more nodes have odd out-degree, the driver reports that
\* no path exists and no call of traverseAll runs after the failed check.
C6_FailFast ==
    /\ pc \in {"loop", "search", "done", "error"} =>
        (noPath <=> Cardinality({n \in Registered(TheGraph) :
                                    Cardinality(arcsFrom[n]) % 2 = 1}) >= 3)
    /\ noPath => startIdx = 0 /\ stack = <<>>

\* C7: every path that traverseAll reports as completed is a valid traversal:
\* chained, without a repeated arc, using every arc of the graph exactly once,
\* a reciprocal pair counting as one arc used in one of its two directions.
C7_ValidPaths == \A r \in Range(reported) : ValidTraversal(TheGraph, r.path)

\* C8: for the undirected triangle A-B, B-C, C-A the search started from each
\* of the six arcs reports at least one completed path, and the reported
\* paths have exactly three arcs, one per reciprocal pair.
C8_Triangle ==
    file = CycleABC =>
        /\ pc # "error"
        /\ pc = "done" => Returned = arcs /\ Cardinality(arcs) = 6
        /\ \A s \in Returned : ReportsFrom(s) # {}
        /\ \A r \in Range(reported) :
            /\ Len(r.path) = 3
            /\ r.path[1] = r.from
            /\ \A a \in Registered(TheGraph) : \A b \in Registered(TheGraph) \ {a} :
                Uses(r.path, a, b) + Uses(r.path, b, a) = 1

C8_Witness ==
    /\ file = CycleABC
    /\ pc = "done"
    /\ {r.from : r \in Range(reported)} = arcs
    /\ Cardinality(arcs) = 6

\* C9: the search is exhaustive: for every graph of reciprocal arc pairs and
\* every starting arc s whose search has returned, if some chained sequence
\* that begins with s uses every undirected edge exactly once, the search
\* from s has reported at least one completed path.
C9_Exhaustive ==
    Reciprocal(TheGraph) =>
        \A s \in Returned : TrailFrom(TheGraph, s) => ReportsFrom(s) # {}

\* a step of the search leaves alone the list of every call that is still
\* running after it, the list available of the driver, and the graph
KeepsCallersLists ==
    pc \in {"loop", "search"} =>
        /\ lists'[1] = lists[1]
        /\ \A k \in 1..Len(stack) : k <= Len(stack') =>
            /\ stack'[k].unvisited = stack[k].unvisited
            /\ lists'[stack'[k].unvisited] = lists[stack[k].unvisited]
        /\ UNCHANGED graphVars

\* C10: branches do not interfere through the remaining-arc set: the list a
\* caller uses to start its next branch, and the list the driver copies for
\* the next starting arc, are what they were before the previous branch was
\* explored, and the search changes no node or arc of the graph.
C10_NoInterference == [][KeepsCallersLists]_vars

\* a caller is about to start a branch after an earlier branch of the same
\* loop was explored and removed arcs from its own list
C10_Witness ==
    /\ pc = "search"
    /\ TopCall.at = "for"
    /\ TopCall.i <= Len(TopCall.neighbors)
    /\ TopCall.neighbors[TopCall.i] \in Range(lists[TopCall.unvisited])
    /\ \E j \in 1..(TopCall.i - 1) : TopCall.neighbors[j] \in Range(lists[TopCall.unvisited])
    /\ startIdx > 1
    /\ lists[1] = Available

\* the call of traverseAll that the driver or the innermost loop makes next:
\* its starting arc, the list it is given a copy of, and the path
NextCall ==
    IF pc = "loop"
    THEN [start |-> lists[1][startIdx + 1], list |-> lists[1], path |-> <<>>,
          from |-> lists[1][startIdx + 1]]
    ELSE [start |-> TopCall.neighbors[TopCall.i], list |-> lists[TopCall.unvisited],
          path |-> path, from |-> stack[1].start]

\* a call of traverseAll is about to be made
Calling ==
    \/ pc = "loop" /\ startIdx < Len(lists[1])
    \/ /\ pc = "search"
       /\ TopCall.at = "for"
       /\ TopCall.i <= Len(TopCall.neighbors)
       /\ TopCall.neighbors[TopCall.i] \in Range(lists[TopCall.unvisited])

\* the step is a call of traverseAll, up to its loop or its return or its exception
IsCall == Calling /\ (pc' = "error" \/ Len(stack') = Len(stack) + 1)

\* the call removes its arc and the reciprocal without error, nothing remains,
\* and the path is empty or ends where the arc starts
CompletesPath ==
    LET c == NextCall
        r == removeFullArc(c.start, c.list)
    IN  /\ r.err = "none"
        /\ r.list = <<>>
        /\ c.path = <<>> \/ c.path[Len(c.path)].finish = c.start.start

ReportsCompleted ==
    (IsCall /\ CompletesPath) =>
        /\ pc' # "error"
        /\ reported' = Append(reported, [from |-> NextCall.from,
                                         path |-> Append(NextCall.path, NextCall.start)])

\* C11: whenever removing the current arc and its reciprocal leaves the
\* remaining list empty and the path is empty or ends where the current arc
\* starts, traverseAll reports the path extended by the current arc as
\* completed, also when the path is still empty (a single arc or edge).
C11_ReportsCompleted == [][ReportsCompleted]_vars

\* on a call of traverseAll, removeFullArc raises nothing and takes from the
\* call's list its arc and at most one other arc, a reciprocal of it
RemovesArcAndReciprocal ==
    IsCall =>
        LET c     == NextCall
            after == lists'[Len(lists) + 1]
            gone  == Range(c.list) \ Range(after)
        IN  /\ err' # "ValueError"
            /\ Range(after) \subseteq Range(c.list)
            /\ Len(after) = Len(c.list) - Cardinality(gone)
            /\ c.start \in gone
            /\ Cardinality(gone) <= 2
            /\ \A x \in gone \ {c.start} :
                x.start = c.start.finish /\ x.finish = c.start.start

\* C12: for every remaining list and every arc in it (self-loops and parallel
\* arcs included) removeFullArc completes without error and removes exactly
\* the given arc plus at most one other arc, a reciprocal of it and distinct
\* from it; every other arc stays in the list.
C12_RemoveFullArc == [][RemovesArcAndReciprocal]_vars

\* every running call works on a list shorter than its caller's (the driver's
\* list available for the outermost call), so the calls are at most as many
\* as the arcs
ShrinkingLists ==
    /\ Len(stack) <= Cardinality(arcs)
    /\ \A k \in 1..Len(stack) :
        Len(lists[stack[k].unvisited]) <
            Len(lists[IF k = 1 THEN 1 ELSE stack[k - 1].unvisited])

\* the driver has taken every starting arc when its loop is over
TriedEveryArc == pc = "done" => startIdx = Cardinality(arcs)

\* C13: for every graph and every starting arc the search terminates (returns
\* or raises): each recursive call works on a remaining list strictly smaller
\* than its caller's, the recursion is at most as deep as the number of arcs,
\* and the driver finishes after trying every starting arc.
C13_Terminates ==
    /\ [](ShrinkingLists /\ TriedEveryArc)
    /\ (pc = "search") ~> (pc = "loop" \/ pc = "error")
    /\ (pc = "loaded") ~> (pc = "done" \/ pc = "error")

\* the driver has finished a file of four arcs or more, with a report
C13_Witness ==
    /\ pc = "done"
    /\ startIdx = Cardinality(arcs)
    /\ Cardinality(arcs) >= 4
    /\ reported # <<>>

=============================================================================
